---------------------------- MODULE Spec2Model ----------------------------
(***************************************************************************)
(* Model of website_generator/links_updater/links_updater.py: the feed     *)
(* aggregation run update_links (fetch over a thread pool, link            *)
(* extraction, ranking, pagination, date grouping, rendering, writing).    *)
(*                                                                         *)
(* Representation of the Python values:                                    *)
(*   str            a TLA+ string (Len and \o as in Python)                *)
(*   list           a sequence                                             *)
(*   dict           a sequence of <<key, value>> pairs with distinct keys, *)
(*                  in insertion order (dict_set is d[k] = v)              *)
(*   FeedParserDict a record whose DOMAIN is the set of keys present       *)
(*   struct_time    a record tm_year, tm_mon, tm_mday, tm_hour, tm_min,    *)
(*                  tm_sec, tm_wday, tm_yday, tm_isdst                     *)
(*   datetime       a record year, month, day, hour, minute, second,       *)
(*                  microsecond                                            *)
(*   Optional[str]  <<>> for None, <<s>> for the string s                  *)
(*   an exception   the record TypeError returned in place of a record     *)
(*                  result, the list <<TypeError>> in place of a list      *)
(* The payload of a Feed is represented by the document feedparser.parse   *)
(* yields for it; the HTTP client, feedparser and jinja2 are not part of   *)
(* the source and are modelled by their interface only.                    *)
(***************************************************************************)
EXTENDS Integers, Sequences, FiniteSets, TLC

\* ------------------------------------------------------------------ bounds
\* Longest list of feed URLs read from feeds.json in a modelled run.
MaxFeeds == 3
\* Most entries of a feed drawn as input of get_links.
MaxEntries == 2
\* Longest base list of publication times the ranked link lists are built from.
MaxLinks == 3
\* Most repetitions of the base list (the same entries listed again).
MaxRep == 11
\* Largest links_per_page passed to group_links_by_pages.
MaxPageSize == 3

\* ------------------------------------------------------- program constants
\* ThreadPoolExecutor(20)
max_workers == 20
\* verify_link's defaults
max_title_len == 200
max_domain_len == 200
\* group_links_by_pages' default
links_per_page == 30

\* ------------------------------------------------------------ Python values
None == [none |-> TRUE]
TypeError == [exc |-> "TypeError"]
RequestException == [exc |-> "RequestException"]

RECURSIVE Rep(_, _)
\* s * n
Rep(s, n) ==
    IF n = 0
    THEN ""
    ELSE LET half == Rep(s, n \div 2)
         IN  IF n % 2 = 0 THEN half \o half ELSE half \o half \o s

Reverse(s) == [i \in 1..Len(s) |-> s[Len(s) + 1 - i]]

RECURSIVE Concat(_)
\* the concatenation of a list of lists
Concat(ss) == IF ss = <<>> THEN <<>> ELSE Head(ss) \o Concat(Tail(ss))

Min(a, b) == IF a < b THEN a ELSE b

\* a[i:j] of Python, 0-based and clipped to the list
Slice(s, i, j) == SubSeq(s, i + 1, Min(j, Len(s)))

struct_time(y, mo, d, h, mi, s) ==
    [tm_year |-> y, tm_mon |-> mo, tm_mday |-> d, tm_hour |-> h, tm_min |-> mi,
     tm_sec |-> s, tm_wday |-> 0, tm_yday |-> 1, tm_isdst |-> 0]

\* struct_time[:n]
struct_time_prefix(st, n) ==
    SubSeq(<<st.tm_year, st.tm_mon, st.tm_mday, st.tm_hour, st.tm_min,
             st.tm_sec, st.tm_wday, st.tm_yday, st.tm_isdst>>, 1, n)

\* datetime.datetime(*args): year, month, day, then hour, minute, second,
\* microsecond defaulting to 0
datetime(args) ==
    [year |-> args[1], month |-> args[2], day |-> args[3],
     hour |-> IF Len(args) >= 4 THEN args[4] ELSE 0,
     minute |-> IF Len(args) >= 5 THEN args[5] ELSE 0,
     second |-> IF Len(args) >= 6 THEN args[6] ELSE 0,
     microsecond |-> IF Len(args) >= 7 THEN args[7] ELSE 0]

datetime_tuple(a) ==
    <<a.year, a.month, a.day, a.hour, a.minute, a.second, a.microsecond>>

\* a < b on datetimes
datetime_lt(a, b) ==
    LET x == datetime_tuple(a)
        y == datetime_tuple(b)
    IN  \E k \in 1..7 : x[k] < y[k] /\ \A j \in 1..(k - 1) : x[j] = y[j]

\* datetime.date()
date(a) == [year |-> a.year, month |-> a.month, day |-> a.day]

Feed(url, content) == [url |-> url, content |-> content]

Link(domain, title, url, published, num) ==
    [domain |-> domain, title |-> title, url |-> url,
     published |-> published, num |-> num]

\* ------------------------------------------------------------------ fetch
\* A plausible slip: the failure is turned into an empty feed, not into None.
get_feed_keeping_failures(feed_url, response) ==
    IF response = RequestException
    THEN Feed(feed_url, [bozo |-> TRUE])
    ELSE Feed(feed_url, response.text)

\* get_feed, given what requests.get(feed_url) did: raised a
\* RequestException, or returned a response.
get_feed(feed_url, response) ==
    IF response = RequestException
    THEN None
    ELSE Feed(feed_url, response.text)

\* A plausible slip: the results are taken as the fetches complete.
map_results_as_completed(fs, completed) ==
    [k \in 1..Len(completed) |-> fs[completed[k]].result]

\* p.map's result iterator: the futures' results in submission order,
\* whatever the order `completed` they finished in.
map_results(fs, completed) ==
    [i \in 1..Len(fs) |-> fs[i].result]

\* [feed for feed in feeds if feed is not None]
not_none(feeds) == SelectSeq(feeds, LAMBDA feed : feed # None)

\* ----------------------------------------------------------------- parsing
valid_entry(feed_entry) ==
    /\ "title" \in DOMAIN feed_entry
    /\ "link" \in DOMAIN feed_entry

valid_feed(feed_dict) ==
    /\ "link" \in DOMAIN feed_dict.feed
    /\ \A i \in 1..Len(feed_dict.entries) : valid_entry(feed_dict.entries[i])

\* urllib.parse.urlparse on the site links of the model
urlparse(url) ==
    CASE url = "http://example.org/" ->
            [scheme |-> "http", netloc |-> "example.org", path |-> "/"]
      [] url = "https://blog.example.net/posts" ->
            [scheme |-> "https", netloc |-> "blog.example.net", path |-> "/posts"]
      [] url = "http://" \o Rep("d", 200) \o "/" ->
            [scheme |-> "http", netloc |-> Rep("d", 200), path |-> "/"]
      [] url = "http://" \o Rep("d", 201) \o "/" ->
            [scheme |-> "http", netloc |-> Rep("d", 201), path |-> "/"]
      [] url = "/about" ->
            [scheme |-> "", netloc |-> "", path |-> "/about"]
      [] url = "" ->
            [scheme |-> "", netloc |-> "", path |-> ""]

get_domain(url) == urlparse(url).netloc

\* A plausible slip: struct_time[:6], which keeps the seconds.
struct_time_to_datetime_with_seconds(st) ==
    IF st = None
    THEN TypeError
    ELSE datetime(struct_time_prefix(st, 6))

\* datetime.datetime(*struct_time[:5]); None[:5] raises TypeError
struct_time_to_datetime(st) ==
    IF st = None
    THEN TypeError
    ELSE datetime(struct_time_prefix(st, 5))

get_published_date(feed_entry) ==
    LET p0 == None
        p1 == IF "updated" \in DOMAIN feed_entry
              THEN feed_entry.updated_parsed ELSE p0
        p2 == IF "published" \in DOMAIN feed_entry
              THEN feed_entry.published_parsed ELSE p1
    IN  struct_time_to_datetime(p2)

\* Link(...) of the entry, or the exception get_published_date raised
get_link_from_feed_entry(source_domain, feed_entry) ==
    LET published == get_published_date(feed_entry)
    IN  IF published = TypeError
        THEN TypeError
        ELSE Link(source_domain, feed_entry.title, feed_entry.link, published, 0)

\* A plausible slip: the domain is not checked.
verify_link_title_only(link) ==
    1 <= Len(link.title) /\ Len(link.title) <= max_title_len

verify_link(link) ==
    /\ 1 <= Len(link.domain) /\ Len(link.domain) <= max_domain_len
    /\ 1 <= Len(link.title) /\ Len(link.title) <= max_title_len

filter_bad_links(links) == SelectSeq(links, verify_link)

\* [get_link_from_feed_entry(domain, e) for e in feed_dict.entries], or
\* <<TypeError>> when an element raises
links_of_entries(domain, entries) ==
    LET links == [i \in 1..Len(entries) |->
                     get_link_from_feed_entry(domain, entries[i])]
    IN  IF \E i \in 1..Len(links) : links[i] = TypeError
        THEN <<TypeError>>
        ELSE links

\* the list of links of the feed, or <<TypeError>> when building it raises
get_links_from_feed(feed) ==
    LET feed_dict == feed.content
    IN  IF feed_dict.bozo
        THEN <<>>
        ELSE IF ~valid_feed(feed_dict)
        THEN <<>>
        ELSE LET domain == get_domain(feed_dict.feed.link)
                 links == links_of_entries(domain, feed_dict.entries)
             IN  IF links = <<TypeError>>
                 THEN <<TypeError>>
                 ELSE filter_bad_links(links)

\* [link for feed in feeds for link in get_links_from_feed(feed)]
get_links(feeds) ==
    LET per_feed == [i \in 1..Len(feeds) |-> get_links_from_feed(feeds[i])]
    IN  IF \E i \in 1..Len(feeds) : per_feed[i] = <<TypeError>>
        THEN <<TypeError>>
        ELSE Concat(per_feed)

\* ---------------------------------------------------------------- curator
RECURSIVE insert_sorted(_, _)
\* x put into the ascending list s behind every element that is not greater
insert_sorted(s, x) ==
    IF s = <<>>
    THEN <<x>>
    ELSE IF datetime_lt(x.published, Head(s).published)
         THEN <<x>> \o s
         ELSE <<Head(s)>> \o insert_sorted(Tail(s), x)

RECURSIVE stable_sort(_)
\* the stable ascending sort by published that list.sort performs
stable_sort(s) ==
    IF s = <<>>
    THEN <<>>
    ELSE insert_sorted(stable_sort(SubSeq(s, 1, Len(s) - 1)), s[Len(s)])

\* A plausible slip: sorted(...) ascending and then reversed, which turns
\* the links of equal time around.
sorted_then_reversed(links) == Reverse(stable_sort(links))

\* sorted(links, key=lambda link: link.published, reverse=True): the list is
\* reversed, sorted stably ascending and reversed again
sorted_reverse(links) == Reverse(stable_sort(Reverse(links)))

sort_links(links) ==
    LET sorted_links == sorted_reverse(links)
    IN  [i \in 1..Len(sorted_links) |-> [sorted_links[i] EXCEPT !.num = i]]

RECURSIVE pages_from(_, _, _)
\* the while loop of group_links_by_pages, from last_link on
pages_from(links, last_link, per_page) ==
    IF last_link < Len(links)
    THEN <<Slice(links, last_link, last_link + per_page)>>
         \o pages_from(links, last_link + per_page, per_page)
    ELSE <<>>

\* A plausible slip: the loop also runs for last_link = len(links).
group_links_by_pages_one_more(links, per_page) ==
    IF Len(links) % per_page = 0
    THEN pages_from(links, 0, per_page) \o << <<>> >>
    ELSE pages_from(links, 0, per_page)

group_links_by_pages(links, per_page) == pages_from(links, 0, per_page)

\* ------------------------------------------------------------ date grouper
RECURSIVE groupby(_)
\* itertools.groupby(links, key=lambda link: link.published.date()): the
\* maximal runs of consecutive links of equal key
groupby(links) ==
    IF links = <<>>
    THEN <<>>
    ELSE LET k == date(Head(links).published)
             rest == groupby(Tail(links))
         IN  IF rest # <<>> /\ rest[1].key = k
             THEN <<[key |-> k, group |-> <<Head(links)>> \o rest[1].group]>>
                  \o Tail(rest)
             ELSE <<[key |-> k, group |-> <<Head(links)>>]>> \o rest

month_name ==
    <<"January", "February", "March", "April", "May", "June", "July",
      "August", "September", "October", "November", "December">>

\* date.strftime("%B %-d, %-Y")
strftime_long(d) ==
    month_name[d.month] \o " " \o ToString(d.day) \o ", " \o ToString(d.year)

\* d[k] = v on a dict
dict_set(d, k, v) ==
    IF \E i \in 1..Len(d) : d[i][1] = k
    THEN [i \in 1..Len(d) |-> IF d[i][1] = k THEN <<k, v>> ELSE d[i]]
    ELSE Append(d, <<k, v>>)

RECURSIVE dict_of_groups(_)
\* {date.strftime(...): list(g) for date, g in groups}
dict_of_groups(groups) ==
    IF groups = <<>>
    THEN <<>>
    ELSE LET last == groups[Len(groups)]
         IN  dict_set(dict_of_groups(SubSeq(groups, 1, Len(groups) - 1)),
                      strftime_long(last.key), last.group)

group_links_by_date(links) == dict_of_groups(groupby(links))

\* A plausible slip: the links are paginated in encounter order, unsorted.
get_pages_unsorted(links) ==
    LET links_by_pages == group_links_by_pages(links, links_per_page)
    IN  [k \in 1..Len(links_by_pages) |-> group_links_by_date(links_by_pages[k])]

get_pages(links) ==
    LET sorted_links == sort_links(links)
        links_by_pages == group_links_by_pages(sorted_links, links_per_page)
    IN  [k \in 1..Len(links_by_pages) |-> group_links_by_date(links_by_pages[k])]

\* ---------------------------------------------------------------- renderer
\* str.zfill
zfill(s, width) == IF Len(s) < width THEN Rep("0", width - Len(s)) \o s ELSE s

\* f"{updated:%Y-%m-%d %H:%M} UTC"
format_updated(updated) ==
    zfill(ToString(updated.year), 4) \o "-" \o zfill(ToString(updated.month), 2)
    \o "-" \o zfill(ToString(updated.day), 2) \o " "
    \o zfill(ToString(updated.hour), 2) \o ":"
    \o zfill(ToString(updated.minute), 2) \o " UTC"

\* f"{{filename}}/links/page-{n}.md"
page_ref(n) == "{filename}/links/page-" \o ToString(n) \o ".md"

\* A plausible slip: next is left out one page early.
render_page_next_early(page_num, link_groups, pages, updated) ==
    [template |-> IF page_num = 1 THEN "links-page-1.md.jinja2"
                  ELSE "links-page-n.md.jinja2",
     context |->
        [page_num |-> page_num,
         link_groups |-> link_groups,
         pages_total |-> Len(pages),
         prev |-> IF page_num = 1 THEN <<>> ELSE <<page_ref(page_num - 1)>>,
         next |-> IF page_num + 1 < Len(pages)
                  THEN <<page_ref(page_num + 1)>> ELSE <<>>,
         updated |-> format_updated(updated)]]

\* template.render(context): the output of the template engine is the pair
\* of the template chosen and the context handed to it
render_page(page_num, link_groups, pages, updated) ==
    [template |-> IF page_num = 1 THEN "links-page-1.md.jinja2"
                  ELSE "links-page-n.md.jinja2",
     context |->
        [page_num |-> page_num,
         link_groups |-> link_groups,
         pages_total |-> Len(pages),
         prev |-> IF page_num = 1 THEN <<>> ELSE <<page_ref(page_num - 1)>>,
         next |-> IF page_num < Len(pages)
                  THEN <<page_ref(page_num + 1)>> ELSE <<>>,
         updated |-> format_updated(updated)]]

\* render_pages, given the value `now` of datetime.datetime.now(tz=utc)
render_pages(pages, now) ==
    [i \in 1..Len(pages) |-> render_page(i, pages[i], pages, now)]

\* render_pages_from_feeds, or <<TypeError>> when get_links raises
render_pages_from_feeds(feeds, now) ==
    LET links == get_links(feeds)
    IN  IF links = <<TypeError>>
        THEN <<TypeError>>
        ELSE render_pages(get_pages(links), now)

\* ------------------------------------------------------------ the inputs
\* Feed documents as feedparser.parse yields them.
entry(title, link, updated, published) ==
    [k \in {"title", "link", "updated", "updated_parsed",
            "published", "published_parsed"} |->
        CASE k = "title" -> title
          [] k = "link" -> link
          [] k = "updated" -> "updated"
          [] k = "updated_parsed" -> updated
          [] k = "published" -> "published"
          [] k = "published_parsed" -> published]

\* the record r without the keys ks
without(r, ks) == [k \in (DOMAIN r) \ ks |-> r[k]]

UpdatedAt == struct_time(2003, 12, 14, 9, 5, 59)
PublishedAt == struct_time(2003, 12, 13, 8, 0, 7)

\* atom1.0.xml of the tests: two entries of example.org, the first one
\* updated at 2003-12-13T18:30:02Z
Entry1 ==
    without(entry("Entry 1", "http://example.org/entry1",
                  struct_time(2003, 12, 13, 18, 30, 2), None),
            {"published", "published_parsed"})

Entry2 == entry("Entry 2", "http://example.org/entry2", UpdatedAt, PublishedAt)

AtomFeed ==
    [bozo |-> FALSE,
     feed |-> [title |-> "Example Feed", link |-> "http://example.org/"],
     entries |-> <<Entry1, Entry2>>]

\* a second site, whose first post has the minute of Entry 1
BlogFeed ==
    [bozo |-> FALSE,
     feed |-> [title |-> "Blog", link |-> "https://blog.example.net/posts"],
     entries |->
        <<without(entry("Post A", "https://blog.example.net/a", None,
                        struct_time(2003, 12, 13, 18, 30, 45)),
                  {"updated", "updated_parsed"}),
          without(entry("Post B", "https://blog.example.net/b",
                        struct_time(2004, 1, 2, 7, 0, 0), None),
                  {"published", "published_parsed"})>>]

\* a feed whose only entry carries neither updated nor published
UndatedFeed ==
    [bozo |-> FALSE,
     feed |-> [title |-> "Undated", link |-> "http://example.org/"],
     entries |->
        <<without(entry("Undated", "http://example.org/undated", None, None),
                  {"updated", "updated_parsed", "published", "published_parsed"})>>]

\* what each URL of the model serves when the request succeeds
payload(url) ==
    CASE url = "http://example.org/atom.xml" -> AtomFeed
      [] url = "https://blog.example.net/feed" -> BlogFeed
      [] url = "http://example.org/undated.xml" -> UndatedFeed

\* URLs that answer, and one that never does (test_get_feeds_bad_url)
ReachableUrls ==
    {"http://example.org/atom.xml", "https://blog.example.net/feed",
     "http://example.org/undated.xml"}

FeedUrls == ReachableUrls \cup {"http://badurl"}

\* what requests.get(url) may do
Responses(url) ==
    IF url \in ReachableUrls
    THEN {RequestException, [text |-> payload(url)]}
    ELSE {RequestException}

SeqsUpTo(S, n) == UNION {[1..k -> S] : k \in 0..n}

\* values of datetime.datetime.now(tz=utc)
Nows ==
    {[year |-> 2024, month |-> 3, day |-> 7, hour |-> 9, minute |-> 5,
      second |-> 41, microsecond |-> 250],
     [year |-> 2025, month |-> 11, day |-> 30, hour |-> 23, minute |-> 59,
      second |-> 0, microsecond |-> 0]}

\* ---------------------------------------------------------------- the run
VARIABLES
    feeds_json,      \* feeds.json: the list of feed URLs
    network,         \* network[i]: what requests.get does for the i-th URL
    pc,              \* where update_links is
    feeds_urls,      \* update_links' feeds_urls
    fs,              \* the futures p.map created, in submission order
    work_queue,      \* the executor's queue of submitted, unstarted tasks
    running,         \* the tasks a worker thread is running
    completed,       \* the tasks in the order they finished
    feeds,           \* update_links' feeds
    rendered_pages,  \* update_links' rendered_pages
    files,           \* LINKS_DIR: file name -> content
    input,           \* the argument of a function called on its own
    called,          \* the function called on its own
    output           \* what it returned

runVars ==
    <<feeds_json, network, pc, feeds_urls, fs, work_queue, running,
      completed, feeds, rendered_pages, files>>

callVars == <<input, called, output>>

vars == <<runVars, callVars>>

NoCall == [fn |-> "", arg |-> 0]

NoRun ==
    /\ feeds_json = <<>>
    /\ network = <<>>
    /\ pc = "idle"
    /\ feeds_urls = <<>>
    /\ fs = <<>>
    /\ work_queue = <<>>
    /\ running = {}
    /\ completed = <<>>
    /\ feeds = <<>>
    /\ rendered_pages = <<>>
    /\ files = <<>>

Init ==
    /\ feeds_json \in SeqsUpTo(FeedUrls, MaxFeeds)
    /\ network \in
          {n \in [1..Len(feeds_json) ->
                     UNION {Responses(u) : u \in FeedUrls}] :
              \A i \in 1..Len(feeds_json) : n[i] \in Responses(feeds_json[i])}
    /\ pc = "get_feeds_urls"
    /\ feeds_urls = <<>>
    /\ fs = <<>>
    /\ work_queue = <<>>
    /\ running = {}
    /\ completed = <<>>
    /\ feeds = <<>>
    /\ rendered_pages = <<>>
    /\ files = <<>>
    /\ input = <<>>
    /\ called = NoCall
    /\ output = <<>>

\* feeds_urls = get_feeds_urls()
GetFeedsUrls ==
    /\ pc = "get_feeds_urls"
    /\ feeds_urls' = feeds_json
    /\ pc' = "map"
    /\ UNCHANGED <<feeds_json, network, fs, work_queue, running, completed,
                   feeds, rendered_pages, files, callVars>>

\* p.map submits get_feed for the next URL
Submit ==
    /\ pc = "map"
    /\ Len(fs) < Len(feeds_urls)
    /\ fs' = Append(fs, [state |-> "PENDING", result |-> None])
    /\ work_queue' = Append(work_queue, Len(fs) + 1)
    /\ UNCHANGED <<feeds_json, network, pc, feeds_urls, running, completed,
                   feeds, rendered_pages, files, callVars>>

\* a worker thread of the pool takes the oldest queued task
WorkerTake ==
    /\ work_queue # <<>>
    /\ Cardinality(running) < max_workers
    /\ running' = running \cup {Head(work_queue)}
    /\ fs' = [fs EXCEPT ![Head(work_queue)].state = "RUNNING"]
    /\ work_queue' = Tail(work_queue)
    /\ UNCHANGED <<feeds_json, network, pc, feeds_urls, completed, feeds,
                   rendered_pages, files, callVars>>

\* a worker thread finishes get_feed(feeds_urls[i]) and sets its future
WorkerFetch(i) ==
    /\ i \in running
    /\ fs' = [fs EXCEPT ![i] =
                 [state |-> "FINISHED",
                  result |-> get_feed(feeds_urls[i], network[i])]]
    /\ running' = running \ {i}
    /\ completed' = Append(completed, i)
    /\ UNCHANGED <<feeds_json, network, pc, feeds_urls, work_queue, feeds,
                   rendered_pages, files, callVars>>

\* the with block is left: shutdown(wait=True) returns once every submitted
\* task has finished
ExitPool ==
    /\ pc = "map"
    /\ Len(fs) = Len(feeds_urls)
    /\ \A i \in 1..Len(fs) : fs[i].state = "FINISHED"
    /\ pc' = "collect"
    /\ UNCHANGED <<feeds_json, network, feeds_urls, fs, work_queue, running,
                   completed, feeds, rendered_pages, files, callVars>>

\* return [feed for feed in feeds if feed is not None]
Collect ==
    /\ pc = "collect"
    /\ feeds' = not_none(map_results(fs, completed))
    /\ pc' = "render_pages_from_feeds"
    /\ UNCHANGED <<feeds_json, network, feeds_urls, fs, work_queue, running,
                   completed, rendered_pages, files, callVars>>

\* rendered_pages = render_pages_from_feeds(feeds); an exception ends the run
RenderPagesFromFeeds ==
    /\ pc = "render_pages_from_feeds"
    /\ \E now \in Nows :
          LET r == render_pages_from_feeds(feeds, now)
          IN  IF r = <<TypeError>>
              THEN pc' = "raised" /\ UNCHANGED rendered_pages
              ELSE pc' = "write_pages" /\ rendered_pages' = r
    /\ UNCHANGED <<feeds_json, network, feeds_urls, fs, work_queue, running,
                   completed, feeds, files, callVars>>

RECURSIVE write_pages(_, _)
\* the files after rendered_pages[1..n] are written over `dir`
write_pages(dir, pages) ==
    IF pages = <<>>
    THEN dir
    ELSE dict_set(write_pages(dir, SubSeq(pages, 1, Len(pages) - 1)),
                  "page-" \o ToString(Len(pages)) \o ".md", pages[Len(pages)])

\* write_pages(rendered_pages)
WritePages ==
    /\ pc = "write_pages"
    /\ files' = write_pages(files, rendered_pages)
    /\ pc' = "done"
    /\ UNCHANGED <<feeds_json, network, feeds_urls, fs, work_queue, running,
                   completed, feeds, rendered_pages, callVars>>

Next ==
    \/ GetFeedsUrls
    \/ Submit
    \/ WorkerTake
    \/ \E i \in 1..Len(fs) : WorkerFetch(i)
    \/ ExitPool
    \/ Collect
    \/ RenderPagesFromFeeds
    \/ WritePages

Spec == Init /\ [][Next]_vars

\* --------------------------------------------- link extraction on its own
\* get_links_from_feed, get_links, get_published_date and filter_bad_links
\* applied to feeds drawn from the documents below.
Title200 == Rep("t", 200)
Title201 == Rep("t", 201)

DatedEntries ==
    {without(entry("Entry 1", "http://example.org/entry1", UpdatedAt, PublishedAt), ks) :
        ks \in {{}, {"updated", "updated_parsed"}, {"published", "published_parsed"}}}

TitledEntries ==
    {without(entry(t, "http://example.org/entry2", UpdatedAt, None),
             {"published", "published_parsed"}) :
        t \in {"", "Entry 2", Title200, Title201}}

Entries ==
    DatedEntries \cup TitledEntries
    \cup {without(Entry1, {"title"}), without(Entry1, {"link"}),
          without(Entry1, {"title", "link"}),
          without(Entry1, {"updated", "updated_parsed"})}

SiteLinks ==
    {"http://example.org/", "http://" \o Rep("d", 200) \o "/",
     "http://" \o Rep("d", 201) \o "/", "/about", ""}

FeedHeads ==
    {[title |-> "Example Feed"]}
    \cup {[title |-> "Example Feed", link |-> l] : l \in SiteLinks}

FeedDocs ==
    {[bozo |-> b, feed |-> h, entries |-> es] :
        b \in BOOLEAN, h \in FeedHeads, es \in SeqsUpTo(Entries, MaxEntries)}

InitFeed ==
    /\ NoRun
    /\ \E doc \in FeedDocs :
          input = [feed |-> Feed("http://feed.example.com/feed", doc),
                   sibling |-> Feed("http://example.org/atom.xml", AtomFeed)]
    /\ called = NoCall
    /\ output = <<>>

CallGetPublishedDate ==
    /\ called = NoCall
    /\ \E i \in 1..Len(input.feed.content.entries) :
          /\ called' = [fn |-> "get_published_date", arg |-> i]
          /\ output' = get_published_date(input.feed.content.entries[i])
    /\ UNCHANGED <<runVars, input>>

CallGetLinksFromFeed ==
    /\ called = NoCall
    /\ called' = [fn |-> "get_links_from_feed", arg |-> 0]
    /\ output' = get_links_from_feed(input.feed)
    /\ UNCHANGED <<runVars, input>>

\* the feed before (arg = 1) or after (arg = 2) a sibling feed of the run
CallGetLinks ==
    /\ called = NoCall
    /\ \E k \in {1, 2} :
          /\ called' = [fn |-> "get_links", arg |-> k]
          /\ output' = get_links(IF k = 1
                                 THEN <<input.feed, input.sibling>>
                                 ELSE <<input.sibling, input.feed>>)
    /\ UNCHANGED <<runVars, input>>

\* the links line 88 builds from the entries, where it builds them
BuiltLinks ==
    links_of_entries(get_domain(input.feed.content.feed.link),
                     input.feed.content.entries)

CallFilterBadLinks ==
    /\ called = NoCall
    /\ valid_feed(input.feed.content)
    /\ BuiltLinks # <<TypeError>>
    /\ called' = [fn |-> "filter_bad_links", arg |-> 0]
    /\ output' = filter_bad_links(BuiltLinks)
    /\ UNCHANGED <<runVars, input>>

NextFeed ==
    \/ CallGetPublishedDate
    \/ CallGetLinksFromFeed
    \/ CallGetLinks
    \/ CallFilterBadLinks

SpecFeed == InitFeed /\ [][NextFeed]_vars

\* ------------------------------------- ranking and pagination on their own
\* sort_links, group_links_by_pages, get_pages and render_pages applied to
\* lists of links: a base list of publication times, repeated.
Times ==
    {datetime(<<2003, 12, 13, 18, 30>>), datetime(<<2003, 12, 13, 9, 5>>),
     datetime(<<2004, 1, 2, 7, 0>>)}

\* n links, the i-th one published at the time i of the base list, repeated
links_at(base, n) ==
    [i \in 1..n |->
        Link("example.org", "link " \o ToString(i),
             "http://example.org/link" \o ToString(i),
             base[((i - 1) % Len(base)) + 1], 0)]

InitPages ==
    /\ NoRun
    /\ \E base \in SeqsUpTo(Times, MaxLinks), rep \in 0..MaxRep :
          input = links_at(base, Len(base) * rep)
    /\ called = NoCall
    /\ output = <<>>

CallSortLinks ==
    /\ called = NoCall
    /\ called' = [fn |-> "sort_links", arg |-> 0]
    /\ output' = sort_links(input)
    /\ UNCHANGED <<runVars, input>>

CallGroupLinksByPages ==
    /\ called = NoCall
    /\ \E per_page \in 1..MaxPageSize :
          /\ called' = [fn |-> "group_links_by_pages", arg |-> per_page]
          /\ output' = group_links_by_pages(input, per_page)
    /\ UNCHANGED <<runVars, input>>

CallGetPages ==
    /\ called = NoCall
    /\ called' = [fn |-> "get_pages", arg |-> 0]
    /\ output' = get_pages(input)
    /\ UNCHANGED <<runVars, input>>

\* the pages of per_page ranked links each, grouped by date
pages_of(links, per_page) ==
    LET links_by_pages == group_links_by_pages(sort_links(links), per_page)
    IN  [k \in 1..Len(links_by_pages) |-> group_links_by_date(links_by_pages[k])]

CallRenderPages ==
    /\ called = NoCall
    /\ \E per_page \in 1..MaxPageSize, now \in Nows :
          /\ called' = [fn |-> "render_pages", arg |-> pages_of(input, per_page)]
          /\ output' = render_pages(pages_of(input, per_page), now)
    /\ UNCHANGED <<runVars, input>>

NextPages ==
    \/ CallSortLinks
    \/ CallGroupLinksByPages
    \/ CallGetPages
    \/ CallRenderPages

SpecPages == InitPages /\ [][NextPages]_vars

\* -------------------------------------------------------------- properties
RECURSIVE Fetched(_)
\* one Feed (url, content) per successful occurrence among the first n URLs
\* of feeds.json, in the order of the list
Fetched(n) ==
    IF n = 0
    THEN <<>>
    ELSE IF network[n] = RequestException
         THEN Fetched(n - 1)
         ELSE Append(Fetched(n - 1),
                     [url |-> feeds_json[n], content |-> network[n].text])

AfterGetFeeds == {"render_pages_from_feeds", "write_pages", "done", "raised"}

\* C1: a failing get_feed yields None and is dropped, every other source is
\* still fetched, and get_feeds returns exactly one Feed (url, content) per
\* successful source occurrence and none for a failed one; with every source
\* failing it returns the empty list.
C1_FailureIsolation ==
    /\ \A i \in 1..Len(fs) :
          fs[i].state = "FINISHED" =>
             IF network[i] = RequestException
             THEN fs[i].result = None
             ELSE fs[i].result =
                     [url |-> feeds_json[i], content |-> network[i].text]
    /\ pc \in AfterGetFeeds =>
          /\ Len(fs) = Len(feeds_json)
          /\ \A i \in 1..Len(fs) : fs[i].state = "FINISHED"
          /\ feeds = Fetched(Len(feeds_json))
          /\ Len(feeds) =
                Cardinality({i \in 1..Len(feeds_json) :
                                network[i] # RequestException})
          /\ (\A i \in 1..Len(feeds_json) : network[i] = RequestException)
                => feeds = <<>>

\* a run of three sources whose second one failed: two feeds came back
C1_Witness ==
    /\ pc = "render_pages_from_feeds"
    /\ Len(feeds_json) = 3
    /\ network[1] # RequestException
    /\ network[2] = RequestException
    /\ network[3] # RequestException
    /\ Len(feeds) = 2

\* C2: whatever the order in which the worker fetches complete, get_feeds
\* returns the same list of feeds and the run the same pages, and no stage
\* after the fetch starts before every fetch has completed.
C2_CompletionOrderIrrelevant ==
    /\ pc \notin {"get_feeds_urls", "map"} =>
          /\ Len(fs) = Len(feeds_json)
          /\ \A i \in 1..Len(fs) : fs[i].state = "FINISHED"
          /\ work_queue = <<>>
          /\ running = {}
    /\ pc \in AfterGetFeeds => feeds = Fetched(Len(feeds_json))
    /\ pc \in {"write_pages", "done"} =>
          \E now \in Nows :
             rendered_pages =
                render_pages(get_pages(get_links(Fetched(Len(feeds_json)))), now)
    /\ pc = "raised" => get_links(Fetched(Len(feeds_json))) = <<TypeError>>

\* a finished run of three fetched feeds whose last fetch completed first
C2_Witness ==
    /\ pc = "done"
    /\ Len(completed) = 3
    /\ completed[1] = 3
    /\ Len(feeds) = 3
    /\ feeds[1].url # feeds[3].url
    /\ Len(rendered_pages) = 1

\* an entry with title and link but neither updated nor published
Undated(e) ==
    /\ valid_entry(e)
    /\ "updated" \notin DOMAIN e
    /\ "published" \notin DOMAIN e

Doc == input.feed.content

\* a feed that is malformed, lacks a non-empty site link, or has an entry
\* missing title or link
Rejected(doc) ==
    \/ doc.bozo
    \/ "link" \notin DOMAIN doc.feed
    \/ doc.feed.link = ""
    \/ \E i \in 1..Len(doc.entries) :
          "title" \notin DOMAIN doc.entries[i] \/ "link" \notin DOMAIN doc.entries[i]

\* the two links of the sibling feed atom1.0.xml
SiblingLinks ==
    <<[domain |-> "example.org", title |-> "Entry 1",
       url |-> "http://example.org/entry1",
       published |-> datetime(<<2003, 12, 13, 18, 30>>), num |-> 0],
      [domain |-> "example.org", title |-> "Entry 2",
       url |-> "http://example.org/entry2",
       published |-> datetime(<<2003, 12, 13, 8, 0>>), num |-> 0]>>

\* C3: get_links_from_feed returns zero links for a feed that is malformed,
\* lacks a non-empty site link or has an entry missing title or link, however
\* many of its entries are valid, and the links of the other feed of the run
\* are unaffected.
C3_WholeFeedRejection ==
    /\ (called.fn = "get_links_from_feed" /\ Rejected(Doc)) => output = <<>>
    /\ (called.fn = "get_links" /\ Rejected(Doc)) => output = SiblingLinks

\* the time t of a struct_time cut to the minute
ToMinute(t) ==
    [year |-> t.tm_year, month |-> t.tm_mon, day |-> t.tm_mday,
     hour |-> t.tm_hour, minute |-> t.tm_min, second |-> 0, microsecond |-> 0]

\* published when the entry has it, else updated
Resolved(e) ==
    IF "published" \in DOMAIN e
    THEN ToMinute(e.published_parsed)
    ELSE ToMinute(e.updated_parsed)

\* C5: with updated and published both present the published time of the
\* Link is the entry's published value, with only updated present it is the
\* updated value, in both cases cut to the minute.
C5_TimestampResolution ==
    /\ called.fn = "get_published_date" =>
          LET e == Doc.entries[called.arg]
          IN  /\ ("updated" \in DOMAIN e /\ "published" \in DOMAIN e)
                    => output = ToMinute(e.published_parsed)
              /\ ("updated" \in DOMAIN e /\ "published" \notin DOMAIN e)
                    => output = ToMinute(e.updated_parsed)
    /\ (/\ called.fn = "get_links_from_feed"
        /\ output # <<TypeError>>
        /\ output # <<>>
        /\ Len(output) = Len(Doc.entries)) =>
          \A i \in 1..Len(output) :
             "updated" \in DOMAIN Doc.entries[i] =>
                output[i].published = Resolved(Doc.entries[i])

\* get_published_date of an entry with both: 2003-12-13 08:00, the published
\* time without its 7 seconds, not the updated time 2003-12-14 09:05:59
C5_Witness ==
    /\ called.fn = "get_published_date"
    /\ "updated" \in DOMAIN Doc.entries[called.arg]
    /\ "published" \in DOMAIN Doc.entries[called.arg]
    /\ output = datetime(<<2003, 12, 13, 8, 0>>)

\* 1 <= len(domain) <= 200 and 1 <= len(title) <= 200
WithinBounds(link) ==
    /\ Len(link.domain) \in 1..200
    /\ Len(link.title) \in 1..200

\* C6: filter_bad_links keeps a link if and only if 1 <= len(domain) <= 200
\* and 1 <= len(title) <= 200, in input order, and a rejected link does not
\* reject its feed: the other links of the feed come out of
\* get_links_from_feed.
C6_FilterPerLink ==
    /\ called.fn = "filter_bad_links" =>
          output = SelectSeq(BuiltLinks, WithinBounds)
    /\ (/\ called.fn = "get_links_from_feed"
        /\ ~Doc.bozo
        /\ valid_feed(Doc)
        /\ output # <<TypeError>>) =>
          output = SelectSeq(BuiltLinks, WithinBounds)

\* a validated feed of two entries, one of them with a title of 201
\* characters: the other one comes out
C6_Witness ==
    /\ called.fn = "get_links_from_feed"
    /\ Len(Doc.entries) = 2
    /\ \E i \in 1..2 : "title" \in DOMAIN Doc.entries[i]
                       /\ Len(Doc.entries[i].title) = 201
    /\ Len(output) = 1
    /\ output # <<TypeError>>
    /\ Len(output[1].title) \in 1..200

\* the place in the input list of a link of the output (the URLs of the
\* input are pairwise different)
InputIndex(link) == CHOOSE j \in 1..Len(input) : input[j].url = link.url

\* C7: sort_links returns a permutation of its input ordered by published
\* descending, links of equal published in their input order, and the i-th
\* link of the result has num = i, so that num runs over exactly 1..N.
C7_Ranking ==
    called.fn = "sort_links" =>
       /\ Len(output) = Len(input)
       /\ \A i \in 1..Len(output) :
             /\ \E j \in 1..Len(input) : input[j] = [output[i] EXCEPT !.num = 0]
             /\ output[i].num = i
       /\ \A i, j \in 1..Len(output) :
             i < j =>
                /\ output[i].url # output[j].url
                /\ ~datetime_lt(output[i].published, output[j].published)
                /\ output[i].published = output[j].published
                      => InputIndex(output[i]) < InputIndex(output[j])
       /\ {output[i].num : i \in 1..Len(output)} = 1..Len(input)

\* a list of six links that had to be reordered and holds links of equal time
C7_Witness ==
    /\ called.fn = "sort_links"
    /\ Len(input) = 6
    /\ \E i \in 1..5 : datetime_lt(input[i].published, input[i + 1].published)
    /\ \E i \in 1..5 : output[i].published = output[i + 1].published
    /\ output[1].url # input[1].url

\* C8: for page size s >= 1, group_links_by_pages returns ceil(N/s) pages,
\* page k being the slice [(k-1)*s, k*s) of the input, so that the pages
\* concatenated are the input; every page is non-empty, only the last one may
\* be shorter than s, and N = 0 gives no page (N = 8, s = 3: sizes 3, 3, 2).
C8_Pagination ==
    called.fn = "group_links_by_pages" =>
       LET s == called.arg
           N == Len(input)
           P == Len(output)
       IN  /\ P = (N + s - 1) \div s
           /\ \A k \in 1..P :
                 /\ output[k] =
                       [i \in 1..(IF k * s <= N THEN s ELSE N - (k - 1) * s) |->
                           input[(k - 1) * s + i]]
                 /\ Len(output[k]) >= 1
                 /\ k < P => Len(output[k]) = s
           /\ Concat(output) = input
           /\ N = 0 => output = <<>>
           /\ (N = 8 /\ s = 3) =>
                 <<Len(output[1]), Len(output[2]), Len(output[3])>> = <<3, 3, 2>>

\* eight links in pages of three
C8_Witness ==
    /\ called.fn = "group_links_by_pages"
    /\ called.arg = 3
    /\ Len(input) = 8
    /\ Len(output) = 3
    /\ Len(output[3]) = 2

\* the links of the groups of a page, in the order of the groups
LinksOfPage(page) == Concat([g \in 1..Len(page) |-> page[g][2]])

\* the k-th slice of 30 of the list `ranked`
SliceOf30(ranked, k) ==
    SubSeq(ranked, 30 * (k - 1) + 1, Min(30 * k, Len(ranked)))

\* "December 13, 2003"
Label(d) ==
    <<"January", "February", "March", "April", "May", "June", "July", "August",
      "September", "October", "November", "December">>[d.month]
    \o " " \o ToString(d.day) \o ", " \o ToString(d.year)

\* d is a later calendar date than e
LaterDate(d, e) ==
    \/ d.year > e.year
    \/ d.year = e.year /\ d.month > e.month
    \/ d.year = e.year /\ d.month = e.month /\ d.day > e.day

\* C9: on every page get_pages produces, group_links_by_date yields one group
\* per distinct calendar date, each the run of the links of that date in page
\* order, most recent date first; the groups concatenated are the links of
\* the page, none lost or reordered.
C9_DateGrouping ==
    called.fn = "get_pages" =>
       LET ranked == sort_links(input)
       IN  /\ Len(output) = (Len(input) + 29) \div 30
           /\ \A k \in 1..Len(output) :
                 LET page == output[k]
                     slice == SliceOf30(ranked, k)
                     DateOf(g) == date(page[g][2][1].published)
                 IN  /\ LinksOfPage(page) = slice
                     /\ \A g \in 1..Len(page) :
                           /\ page[g][2] # <<>>
                           /\ \A i \in 1..Len(page[g][2]) :
                                 date(page[g][2][i].published) = DateOf(g)
                           /\ page[g][1] = Label(DateOf(g))
                     /\ \A g, h \in 1..Len(page) :
                           g < h => LaterDate(DateOf(g), DateOf(h))
                     /\ Len(page) =
                           Cardinality({date(slice[i].published) :
                                           i \in 1..Len(slice)})

\* 33 links given out of order: two pages, the first one of two dates
C9_Witness ==
    /\ called.fn = "get_pages"
    /\ Len(input) = 33
    /\ datetime_lt(input[1].published, input[2].published)
    /\ Len(output) = 2
    /\ Len(output[1]) = 2
    /\ Len(LinksOfPage(output[1])) = 30
    /\ Len(LinksOfPage(output[2])) = 3

\* C10: for P pages render_pages renders P bodies, one per page in order; the
\* context of page k has page_num = k and pages_total = P, prev absent iff
\* k = 1 and else referring to page k-1, next absent iff k = P and else
\* referring to page k+1; the first-page template is used exactly for k = 1,
\* and P = 0 renders nothing.
C10_PaginationMetadata ==
    called.fn = "render_pages" =>
       LET pages == called.arg
           P == Len(pages)
       IN  /\ Len(output) = P
           /\ P = 0 => output = <<>>
           /\ \A k \in 1..P :
                 LET c == output[k].context
                 IN  /\ c.page_num = k
                     /\ c.pages_total = P
                     /\ c.link_groups = pages[k]
                     /\ c.prev = <<>> <=> k = 1
                     /\ k > 1 =>
                           c.prev = <<"{filename}/links/page-"
                                      \o ToString(k - 1) \o ".md">>
                     /\ c.next = <<>> <=> k = P
                     /\ k < P =>
                           c.next = <<"{filename}/links/page-"
                                      \o ToString(k + 1) \o ".md">>
                     /\ output[k].template = "links-page-1.md.jinja2" <=> k = 1
                     /\ k > 1 => output[k].template = "links-page-n.md.jinja2"

\* three pages rendered: the middle one has both references
C10_Witness ==
    /\ called.fn = "render_pages"
    /\ Len(output) = 3
    /\ output[2].context.prev = <<"{filename}/links/page-1.md">>
    /\ output[2].context.next = <<"{filename}/links/page-3.md">>
    /\ output[3].context.next = <<>>

=============================================================================
